---- MODULE Spec2Model ----
(***************************************************************************)
(* Match lifecycle of the volunteer-management backend: the request        *)
(* handlers of app/routes/match_routes.py together with the handlers that  *)
(* create and delete the opportunities they read. Users are not deleted    *)
(* and organizations are not deleted or edited in this model.              *)
(* Each handler is one atomic step of Spec (one request-scoped session run *)
(* to completion); SpecConc splits create_match at its commit so that two  *)
(* requests can interleave.                                                *)
(***************************************************************************)
EXTENDS Integers, Sequences, FiniteSets, TLC

(* ---------------------------------------------------------------- bounds *)
MaxMatches == 2
MaxOpps == 2
MaxOrgs == 3
MaxHours == 2
MaxUsers == 7
MaxNotifications == 3

(* ------------------------------------------------------------- constants *)
\* SQL NULL in a nullable integer column (ids start at 1).
NULL == 0
\* Python None where a status value is expected.
None == "None"
\* A request body that leaves the field out.
Omitted == "omitted"

VOLUNTEER == "volunteer"
ORGANIZATION == "organization"
ADMIN == "admin"
UserRole == {VOLUNTEER, ORGANIZATION, ADMIN}

PENDING == "pending"
ACCEPTED == "accepted"
REJECTED == "rejected"
MatchStatus == {PENDING, ACCEPTED, REJECTED}

\* Bodies a client can send to PUT /api/matches/{id}: each enum value, a
\* string outside the enum, and a body without "status".
StatusBodies == MatchStatus \cup {"bogus", Omitted}

\* Bodies a client can send to PUT /api/hours/{id}/verify: the two decisions,
\* another string, and a body without "status".
Decisions == {"approved", "rejected", "bogus", Omitted}

\* Values of VolunteerHour.hours and VolunteerHour.date that requests carry.
HoursValues == {1, 2}
DateValues == {"d1", "d2"}

\* Bodies of POST /api/hours (VolunteerHourCreate without opportunity_id).
VolunteerHourCreate == {[hours |-> 1, date |-> "d1"]}

\* Bodies of POST /api/hours over the values a float field takes: negative,
\* zero and positive (VolunteerHourCreate declares hours: float and no
\* validator).
VolunteerHourCreateAnyHours == [hours : {-1, 0, 1}, date : {"d1"}]

\* Bodies of PUT /api/hours/{id} (VolunteerHourUpdate): values for hours,
\* date, description and status, and the set of the fields that were sent
\* (dict(exclude_unset=True)).
VolunteerHourUpdate ==
    [hours : {2}, date : {"d2"}, description : {"text"}, status : {"verified"},
     sent : {{}, {"hours"}, {"date", "status"}, {"hours", "date", "description", "status"}}]

Workers == {"w1", "w2"}

VARIABLES
    users,          \* users table: id -> [role, organization_id]
    organizations,  \* organizations table: id -> [contact, status] (contact: the user whose email is contact_email)
    nextOrgId,      \* next autoincrement id of organizations
    opportunities,  \* opportunities table: id -> [organization_id]
    nextOppId,      \* next autoincrement id of opportunities
    matches,        \* matches table, a sequence: id = index -> [user_id, opportunity_id, status]
    hours,          \* volunteer_hours table: id -> [user_id, opportunity_id, hours, date, verified]
    nextHourId,     \* next autoincrement id of volunteer_hours
    notified,       \* the notification the last request handed to send_email: [to, about]
    last,           \* the last request served and its response
    pc,             \* SpecConc: where each worker's create_match request stands
    req,            \* SpecConc: the request each worker is serving
    bulk            \* SpecBulk: the call of send_bulk_notifications: its argument, counters and return value

vars == <<users, organizations, nextOrgId, opportunities, nextOppId, matches,
          hours, nextHourId, notified, last, pc, req, bulk>>
db == <<users, organizations, nextOrgId, opportunities, nextOppId, matches, hours, nextHourId>>

MatchIds == 1..Len(matches)
\* Ids a client may name: every id issued so far and one that never was.
MatchIdInputs == 1..(Len(matches) + 1)
OppIdInputs == 1..nextOppId
OrgIdInputs == 1..nextOrgId
HourIdInputs == 1..nextHourId

\* The log of the last request: the handler that served it and the status
\* code it answered with.
NoRequest == [op |-> "none", resp |-> NULL]
Request(op, resp) == [op |-> op, resp |-> resp]

\* The request handed nothing to send_email.
NoNotification == [to |-> NULL, about |-> "none"]

(* ------------------------------------------------------------------ Init *)
\* The users registered so far (register_user). User 2 is an organization
\* user with the Organization created for it. User 5 is an organization user
\* whose organization_id is NULL (register_user commits the user before it
\* creates the Organization; create_opportunity and list_matches both branch
\* on such a user).
RegisteredUsers ==
       (1 :> [role |-> VOLUNTEER, organization_id |-> NULL])
    @@ (2 :> [role |-> ORGANIZATION, organization_id |-> 1])
    @@ (3 :> [role |-> VOLUNTEER, organization_id |-> NULL])
    @@ (4 :> [role |-> ADMIN, organization_id |-> NULL])
    @@ (5 :> [role |-> ORGANIZATION, organization_id |-> NULL])

\* The users table with one more row, whose role column holds a string
\* outside UserRole. users.role is a String column without a check
\* constraint, so the table can hold such a row, but no route writes one:
\* register_user takes the role from UserCreate.role, a UserRole.
UsersAnyRole == RegisteredUsers @@ (6 :> [role |-> "guest", organization_id |-> NULL])

\* The database the requests start from: a users table and two
\* organizations. Organization 1 belongs to user 2; organization 2 was
\* created through POST /api/organizations and has no user.
InitTables(table) ==
    /\ users = table
    /\ organizations = (1 :> [contact |-> 2, status |-> "active"])
                     @@ (2 :> [contact |-> NULL, status |-> "active"])
    /\ nextOrgId = 3
    /\ opportunities = <<>>
    /\ nextOppId = 1
    /\ matches = <<>>
    /\ hours = <<>>
    /\ nextHourId = 1
    /\ notified = NoNotification
    /\ last = NoRequest
    /\ pc = [w \in Workers |-> "idle"]
    /\ req = [w \in Workers |-> [caller |-> NULL, opportunity_id |-> NULL]]

\* send_bulk_notifications was not called.
NoBulk ==
    [notifications |-> <<>>, called |-> FALSE, returned |-> None,
     success_count |-> 0, failure_count |-> 0]

InitWith(table) == InitTables(table) /\ bulk = NoBulk

Init == InitWith(RegisteredUsers)

\* The start with a users table that holds a role outside UserRole.
InitAnyRole == InitWith(UsersAnyRole)

(* ------------------------------------------------ app.utils.auth guards *)
\* Depends(get_organization_user): organization and admin users pass.
get_organization_user(u) == users[u].role \in {ORGANIZATION, ADMIN}
\* Depends(get_admin_user): admin users pass.
get_admin_user(u) == users[u].role = ADMIN

(* ---------------------------------------------------------- create_match *)
\* db.query(Match).filter(user_id == u, opportunity_id == oid).first()
existing_match(u, oid) ==
    \E m \in MatchIds : matches[m].user_id = u /\ matches[m].opportunity_id = oid

\* (mutant) create_match without the duplicate-application check.
create_match_NoDuplicateCheck(u, oid) ==
    IF users[u].role # VOLUNTEER THEN 403
    ELSE IF oid \notin DOMAIN opportunities THEN 404
    ELSE 201

\* (mutant) create_match that looks the opportunity up before it looks at
\* the caller's role.
create_match_OpportunityCheckFirst(u, oid) ==
    IF oid \notin DOMAIN opportunities THEN 404
    ELSE IF users[u].role # VOLUNTEER THEN 403
    ELSE IF existing_match(u, oid) THEN 400
    ELSE 201

\* The status code create_match answers with.
create_match_response(u, oid) ==
    IF users[u].role # VOLUNTEER THEN 403
    ELSE IF oid \notin DOMAIN opportunities THEN 404
    ELSE IF existing_match(u, oid) THEN 400
    ELSE 201

\* Match(user_id=..., opportunity_id=..., status=MatchStatus.PENDING)
new_match(u, oid) == [user_id |-> u, opportunity_id |-> oid, status |-> PENDING]

\* The matches table after create_match: db.add + db.commit on success only.
create_match_store(u, oid) ==
    IF create_match_response(u, oid) = 201
    THEN Append(matches, new_match(u, oid))
    ELSE matches

CreateMatch(u, oid) ==
    /\ create_match_response(u, oid) = 201 => Len(matches) < MaxMatches
    /\ matches' = create_match_store(u, oid)
    /\ last' = Request("create_match", create_match_response(u, oid))
    /\ UNCHANGED <<users, organizations, nextOrgId, opportunities, nextOppId, pc, req, bulk>>
    /\ UNCHANGED <<hours, nextHourId>>
    /\ notified' = NoNotification

(* ---------------------------------------------------------- update_match *)
\* MatchUpdate: status: Optional[str] = None with @validator('status'). The
\* validator runs on a value that was sent, not on the default of a field
\* that was left out.
MatchUpdate_valid(body) == body = Omitted \/ body \in MatchStatus
\* match_data.status of a body that passed validation.
MatchUpdate_status(body) == IF body = Omitted THEN None ELSE body

\* (mutant) any organization user with an organization passes.
update_match_authorized_AnyOrganization(u, oid) ==
    IF users[u].role = ADMIN THEN TRUE
    ELSE IF users[u].role = ORGANIZATION
    THEN users[u].organization_id # NULL
    ELSE FALSE

\* "Check authorization" of update_match, for the opportunity row oid.
update_match_authorized(u, oid) ==
    IF users[u].role = ADMIN THEN TRUE
    ELSE IF users[u].role = ORGANIZATION
    THEN ~(users[u].organization_id = NULL
           \/ opportunities[oid].organization_id # users[u].organization_id)
    ELSE FALSE

\* (mutant) update_match that lets an admin through without looking the
\* opportunity of the match up.
update_match_commits_AdminSkipsOpportunity(u, mid, body) ==
    /\ MatchUpdate_valid(body)
    /\ mid \in MatchIds
    /\ \/ users[u].role = ADMIN
       \/ /\ matches[mid].opportunity_id \in DOMAIN opportunities
          /\ update_match_authorized(u, matches[mid].opportunity_id)

\* The request reaches "match.status = match_data.status; db.commit()".
update_match_commits(u, mid, body) ==
    /\ MatchUpdate_valid(body)
    /\ mid \in MatchIds
    /\ matches[mid].opportunity_id \in DOMAIN opportunities
    /\ update_match_authorized(u, matches[mid].opportunity_id)

\* The status code update_match answers with. A body rejected by MatchUpdate
\* never reaches the handler (422); a committed status that MatchResponse
\* (status: MatchStatus) cannot serialise ends as a server error.
update_match_response(u, mid, body) ==
    IF ~MatchUpdate_valid(body) THEN 422
    ELSE IF mid \notin MatchIds THEN 404
    ELSE IF matches[mid].opportunity_id \notin DOMAIN opportunities THEN 404
    ELSE IF ~update_match_authorized(u, matches[mid].opportunity_id) THEN 403
    ELSE IF MatchUpdate_status(body) \notin MatchStatus THEN 500
    ELSE 200

\* (mutant) the status is written and committed before the authorization
\* check.
update_match_store_WriteBeforeAuthorization(u, mid, body) ==
    IF /\ MatchUpdate_valid(body)
       /\ mid \in MatchIds
       /\ matches[mid].opportunity_id \in DOMAIN opportunities
    THEN [matches EXCEPT ![mid].status = MatchUpdate_status(body)]
    ELSE matches

\* The matches table after update_match.
update_match_store(u, mid, body) ==
    IF update_match_commits(u, mid, body)
    THEN [matches EXCEPT ![mid].status = MatchUpdate_status(body)]
    ELSE matches

UpdateMatch(u, mid, body) ==
    /\ matches' = update_match_store(u, mid, body)
    /\ last' = Request("update_match", update_match_response(u, mid, body))
    /\ UNCHANGED <<users, organizations, nextOrgId, opportunities, nextOppId, pc, req, bulk>>
    /\ UNCHANGED <<hours, nextHourId>>
    /\ notified' = NoNotification

(* ---------------------------------------------------------- list_matches *)
\* (mutant) the organization branch without the filter on
\* Opportunity.organization_id.
list_matches_NoOrganizationFilter(u) ==
    IF users[u].role = VOLUNTEER
    THEN {m \in MatchIds : matches[m].user_id = u}
    ELSE IF users[u].role = ORGANIZATION
    THEN IF users[u].organization_id = NULL
         THEN {}
         ELSE {m \in MatchIds : matches[m].opportunity_id \in DOMAIN opportunities}
    ELSE IF users[u].role = ADMIN
    THEN MatchIds
    ELSE {}

\* The ids of the rows list_matches returns to caller u.
list_matches(u) ==
    IF users[u].role = VOLUNTEER
    THEN {m \in MatchIds : matches[m].user_id = u}
    ELSE IF users[u].role = ORGANIZATION
    THEN IF users[u].organization_id = NULL
         THEN {}
         ELSE {m \in MatchIds :
                 \E o \in DOMAIN opportunities :
                    /\ matches[m].opportunity_id = o
                    /\ opportunities[o].organization_id = users[u].organization_id}
    ELSE IF users[u].role = ADMIN
    THEN MatchIds
    ELSE {}

ListMatches(u) ==
    /\ last' = Request("list_matches", 200)
    /\ notified' = NoNotification
    /\ UNCHANGED <<db, pc, req, bulk>>

(* ------------------------------------------------------------- get_match *)
\* The status code get_match answers with.
get_match_response(u, mid) ==
    IF mid \notin MatchIds THEN 404
    ELSE IF users[u].role = VOLUNTEER
    THEN IF matches[mid].user_id # u THEN 403 ELSE 200
    ELSE IF users[u].role = ORGANIZATION
    THEN IF \/ users[u].organization_id = NULL
            \/ matches[mid].opportunity_id \notin DOMAIN opportunities
            \/ opportunities[matches[mid].opportunity_id].organization_id
                 # users[u].organization_id
         THEN 403 ELSE 200
    ELSE 200

GetMatch(u, mid) ==
    /\ last' = Request("get_match", get_match_response(u, mid))
    /\ notified' = NoNotification
    /\ UNCHANGED <<db, pc, req, bulk>>

(* ----------------------------------------------------- create_opportunity *)
\* Organization.contact_email == current_user.email: the organizations whose
\* contact is user u.
organizations_of_contact(u) == {g \in DOMAIN organizations : organizations[g].contact = u}

\* An organization user without organization_id and without an Organization
\* under its email gets a new Organization row first.
create_opportunity_adds_organization(u) ==
    /\ users[u].role = ORGANIZATION
    /\ users[u].organization_id = NULL
    /\ organizations_of_contact(u) = {}

\* The status code create_opportunity answers with. body_org is the
\* organization_id of the body (NULL when left out). The handler's
\* "except Exception" also catches its own HTTPException, so the admin
\* request without organization_id ends as a 500.
create_opportunity_response(u, body_org) ==
    IF ~get_organization_user(u) THEN 403
    ELSE IF users[u].role = ADMIN /\ body_org = NULL THEN 500
    ELSE 200

\* organization_id of the new Opportunity, given the organization g found or
\* created for a user without organization_id.
create_opportunity_organization_id(u, body_org, g) ==
    IF users[u].role = ORGANIZATION
    THEN IF users[u].organization_id # NULL THEN users[u].organization_id ELSE g
    ELSE body_org

CreateOpportunity(u, body_org) ==
    /\ body_org \in DOMAIN organizations \cup {NULL}
    /\ IF create_opportunity_response(u, body_org) = 200
       THEN /\ nextOppId <= MaxOpps
            /\ IF create_opportunity_adds_organization(u)
               THEN /\ nextOrgId <= MaxOrgs
                    /\ organizations' = organizations @@ (nextOrgId :> [contact |-> u, status |-> "active"])
                    /\ nextOrgId' = nextOrgId + 1
                    /\ opportunities' = opportunities @@
                         (nextOppId :> [organization_id |->
                             create_opportunity_organization_id(u, body_org, nextOrgId)])
               ELSE /\ UNCHANGED <<organizations, nextOrgId>>
                    /\ \E g \in (IF users[u].role = ORGANIZATION /\ users[u].organization_id = NULL
                                 THEN organizations_of_contact(u) ELSE {NULL}) :
                          opportunities' = opportunities @@
                            (nextOppId :> [organization_id |->
                                create_opportunity_organization_id(u, body_org, g)])
            /\ nextOppId' = nextOppId + 1
       ELSE UNCHANGED <<organizations, nextOrgId, opportunities, nextOppId>>
    /\ last' = Request("create_opportunity", create_opportunity_response(u, body_org))
    /\ notified' = NoNotification
    /\ UNCHANGED <<users, matches, hours, nextHourId, pc, req, bulk>>

(* ----------------------------------------------------- delete_opportunity *)
\* (mutant) Opportunity.matches with a delete cascade: the rows that
\* referenced the deleted Opportunity are deleted with it.
matches_without_opportunity_Cascade(oid) ==
    SelectSeq(matches, LAMBDA r : r.opportunity_id # oid)

\* db.delete(opportunity): Opportunity.matches is a relationship without
\* delete cascade, so the session sets opportunity_id of the rows that
\* referenced the deleted Opportunity to NULL.
matches_without_opportunity(oid) ==
    [m \in MatchIds |->
        IF matches[m].opportunity_id = oid
        THEN [matches[m] EXCEPT !.opportunity_id = NULL]
        ELSE matches[m]]

\* Opportunity.volunteer_hours is a relationship without delete cascade as
\* well: the VolunteerHour rows of the deleted Opportunity keep existing with
\* opportunity_id NULL.
hours_without_opportunity(oid) ==
    [h \in DOMAIN hours |->
        IF hours[h].opportunity_id = oid
        THEN [hours[h] EXCEPT !.opportunity_id = NULL]
        ELSE hours[h]]

opportunities_without(oid) ==
    [o \in DOMAIN opportunities \ {oid} |-> opportunities[o]]

\* DELETE /api/opportunities/{id}. A caller who is not an admin passes only
\* when the opportunity's organization_id equals the caller's user id.
delete_opportunity_response(u, oid) ==
    IF ~get_organization_user(u) THEN 403
    ELSE IF oid \notin DOMAIN opportunities THEN 404
    ELSE IF users[u].role # ADMIN /\ opportunities[oid].organization_id # u THEN 403
    ELSE 204

DeleteOpportunity(u, oid) ==
    /\ IF delete_opportunity_response(u, oid) = 204
       THEN /\ opportunities' = opportunities_without(oid)
            /\ matches' = matches_without_opportunity(oid)
            /\ hours' = hours_without_opportunity(oid)
       ELSE UNCHANGED <<opportunities, matches, hours>>
    /\ last' = Request("delete_opportunity", delete_opportunity_response(u, oid))
    /\ notified' = NoNotification
    /\ UNCHANGED <<users, organizations, nextOrgId, nextOppId, nextHourId, pc, req, bulk>>

\* DELETE /api/admin/opportunities/{opportunity_id}.
admin_delete_opportunity_response(u, oid) ==
    IF ~get_admin_user(u) THEN 403
    ELSE IF oid \notin DOMAIN opportunities THEN 404
    ELSE 204

AdminDeleteOpportunity(u, oid) ==
    /\ IF admin_delete_opportunity_response(u, oid) = 204
       THEN /\ opportunities' = opportunities_without(oid)
            /\ matches' = matches_without_opportunity(oid)
            /\ hours' = hours_without_opportunity(oid)
       ELSE UNCHANGED <<opportunities, matches, hours>>
    /\ last' = Request("admin_delete_opportunity", admin_delete_opportunity_response(u, oid))
    /\ notified' = NoNotification
    /\ UNCHANGED <<users, organizations, nextOrgId, nextOppId, nextHourId, pc, req, bulk>>

(* ------------------------------------------------------------------ Spec *)
\* Requests handled one at a time, each by any user and with any input.
Next ==
    \/ \E u \in DOMAIN users, oid \in OppIdInputs : CreateMatch(u, oid)
    \/ \E u \in DOMAIN users, mid \in MatchIdInputs, body \in StatusBodies :
          UpdateMatch(u, mid, body)
    \/ \E u \in DOMAIN users : ListMatches(u)
    \/ \E u \in DOMAIN users, mid \in MatchIdInputs : GetMatch(u, mid)
    \/ \E u \in DOMAIN users, g \in OrgIdInputs \cup {NULL} : CreateOpportunity(u, g)
    \/ \E u \in DOMAIN users, oid \in OppIdInputs : DeleteOpportunity(u, oid)
    \/ \E u \in DOMAIN users, oid \in OppIdInputs : AdminDeleteOpportunity(u, oid)

Spec == Init /\ [][Next]_vars

\* The same requests over the users table with a role outside UserRole.
SpecAnyRole == InitAnyRole /\ [][Next]_vars

(* ------------------------------------------------------- MatchingService *)
\* Ids a caller of the service may pass as volunteer_id: every user and one
\* id that names no user.
VolunteerIdInputs == DOMAIN users \cup {Cardinality(DOMAIN users) + 1}

\* What MatchingService.create_match returns: None when the volunteer or the
\* opportunity is not found, else the existing Match or the new one.
MatchingService_create_match_result(v, oid) ==
    IF v \notin DOMAIN users \/ users[v].role # VOLUNTEER THEN None
    ELSE IF oid \notin DOMAIN opportunities THEN None
    ELSE "Match"

\* (mutant) no "if existing_match: return existing_match".
MatchingService_create_match_commits_NoExistingCheck(v, oid) ==
    MatchingService_create_match_result(v, oid) = "Match"

\* MatchingService.create_match reaches db.add(new_match); db.commit().
MatchingService_create_match_commits(v, oid) ==
    /\ MatchingService_create_match_result(v, oid) = "Match"
    /\ ~existing_match(v, oid)

\* The id of the Match the call returns (NULL for None): the row the
\* existing_match query finds, else the row the call adds.
MatchingService_create_match_returned(v, oid) ==
    IF MatchingService_create_match_result(v, oid) = None THEN NULL
    ELSE IF MatchingService_create_match_commits(v, oid) THEN Len(matches) + 1
    ELSE CHOOSE m \in MatchIds :
            /\ matches[m].user_id = v /\ matches[m].opportunity_id = oid
            /\ \A n \in MatchIds :
                  (matches[n].user_id = v /\ matches[n].opportunity_id = oid) => m <= n

\* The matches table after the call.
MatchingService_create_match_store(v, oid) ==
    IF MatchingService_create_match_commits(v, oid)
    THEN Append(matches, new_match(v, oid))
    ELSE matches

\* What the call hands to send_email.
MatchingService_create_match_notification(v, oid) ==
    IF MatchingService_create_match_commits(v, oid)
    THEN [to |-> v, about |-> "applied"]
    ELSE NoNotification

\* send_match_notification_email(volunteer.email, ...) after the commit.
\* send_email catches every exception of the SMTP exchange, so the call
\* returns whether or not the mail went out.
MatchingService_create_match(v, oid) ==
    /\ MatchingService_create_match_commits(v, oid) => Len(matches) < MaxMatches
    /\ matches' = MatchingService_create_match_store(v, oid)
    /\ notified' = MatchingService_create_match_notification(v, oid)
    /\ last' = [op |-> "MatchingService.create_match",
                resp |-> MatchingService_create_match_result(v, oid),
                id |-> MatchingService_create_match_returned(v, oid)]
    /\ UNCHANGED <<users, organizations, nextOrgId, opportunities, nextOppId>>
    /\ UNCHANGED <<hours, nextHourId, pc, req, bulk>>

\* MatchingService.update_match_status reaches match.status = new_status;
\* db.commit(): the match exists.
MatchingService_update_match_status_commits(mid) == mid \in MatchIds

\* After the commit the service reads the volunteer and the opportunity of
\* the match and passes volunteer.email, volunteer.username and
\* opportunity.title on: a row that is missing raises AttributeError before
\* NotificationService is called.
MatchingService_update_match_status_notifies(mid) ==
    /\ mid \in MatchIds
    /\ matches[mid].user_id \in DOMAIN users
    /\ matches[mid].opportunity_id \in DOMAIN opportunities

\* What MatchingService.update_match_status returns: None when the match is
\* not found and from "except Exception", else the Match.
MatchingService_update_match_status_result(mid) ==
    IF MatchingService_update_match_status_notifies(mid) THEN "Match" ELSE None

\* The matches table after MatchingService.update_match_status: the
\* db.rollback() of "except Exception" comes after the commit and undoes
\* nothing.
MatchingService_update_match_status_store(mid, new_status) ==
    IF MatchingService_update_match_status_commits(mid)
    THEN [matches EXCEPT ![mid].status = new_status]
    ELSE matches

MatchingService_update_match_status(mid, new_status) ==
    /\ matches' = MatchingService_update_match_status_store(mid, new_status)
    /\ notified' = IF MatchingService_update_match_status_notifies(mid)
                   THEN [to |-> matches[mid].user_id, about |-> new_status]
                   ELSE NoNotification
    /\ last' = Request("MatchingService.update_match_status",
                       MatchingService_update_match_status_result(mid))
    /\ UNCHANGED <<users, organizations, nextOrgId, opportunities, nextOppId>>
    /\ UNCHANGED <<hours, nextHourId, pc, req, bulk>>

\* The service called from a session of its own, next to the requests that
\* create and delete opportunities.
NextService ==
    \/ \E v \in VolunteerIdInputs, oid \in OppIdInputs : MatchingService_create_match(v, oid)
    \/ \E mid \in MatchIdInputs, st \in MatchStatus : MatchingService_update_match_status(mid, st)
    \/ \E u \in DOMAIN users, g \in OrgIdInputs \cup {NULL} : CreateOpportunity(u, g)
    \/ \E u \in DOMAIN users, oid \in OppIdInputs : DeleteOpportunity(u, oid)

SpecService == Init /\ [][NextService]_vars


(* ------------------------------------------------------------- log_hours *)
\* (mutant) log_hours with a duplicate guard like the one of create_match.
log_hours_DuplicateGuard(u, oid) ==
    IF users[u].role # VOLUNTEER THEN 403
    ELSE IF oid \notin DOMAIN opportunities THEN 404
    ELSE IF \E id \in DOMAIN hours :
               hours[id].user_id = u /\ hours[id].opportunity_id = oid THEN 400
    ELSE 200

\* The status code log_hours answers with.
log_hours_response(u, oid) ==
    IF users[u].role # VOLUNTEER THEN 403
    ELSE IF oid \notin DOMAIN opportunities THEN 404
    ELSE 200

\* VolunteerHour(user_id=..., opportunity_id=..., hours=..., date=..., verified=False)
new_hour(u, oid, body) ==
    [user_id |-> u, opportunity_id |-> oid, hours |-> body.hours, date |-> body.date,
     verified |-> FALSE]

\* The volunteer_hours table after log_hours: db.add + db.commit on success
\* only.
log_hours_store(u, oid, body) ==
    IF log_hours_response(u, oid) = 200
    THEN hours @@ (nextHourId :> new_hour(u, oid, body))
    ELSE hours

LogHours(u, oid, body) ==
    /\ hours' = log_hours_store(u, oid, body)
    /\ IF log_hours_response(u, oid) = 200
       THEN /\ nextHourId <= MaxHours
            /\ nextHourId' = nextHourId + 1
       ELSE UNCHANGED nextHourId
    /\ last' = Request("log_hours", log_hours_response(u, oid))
    /\ notified' = NoNotification
    /\ UNCHANGED <<users, organizations, nextOrgId, opportunities, nextOppId, matches, pc, req, bulk>>

(* ------------------------------------------------------------ list_hours *)
\* The ids of the rows list_hours returns to caller u. The organization
\* branch joins Opportunity and filters on
\* Opportunity.organization_id == current_user.id.
list_hours(u) ==
    IF users[u].role = VOLUNTEER
    THEN {id \in DOMAIN hours : hours[id].user_id = u}
    ELSE IF users[u].role = ORGANIZATION
    THEN {id \in DOMAIN hours :
            /\ hours[id].opportunity_id \in DOMAIN opportunities
            /\ opportunities[hours[id].opportunity_id].organization_id = u}
    ELSE IF users[u].role = ADMIN
    THEN DOMAIN hours
    ELSE {}

ListHours(u) ==
    /\ last' = Request("list_hours", 200)
    /\ notified' = NoNotification
    /\ UNCHANGED <<db, pc, req, bulk>>

(* ---------------------------------------------------------- verify_hours *)
\* VolunteerHourVerify: status: str, a required field of any string value.
VolunteerHourVerify_valid(decision) == decision # Omitted

\* The authorization of verify_hours past Depends(get_organization_user): an
\* organization user passes when the opportunity of the record exists and
\* its organization_id equals the caller's user id.
verify_hours_authorized(u, id) ==
    IF users[u].role = ORGANIZATION
    THEN /\ hours[id].opportunity_id \in DOMAIN opportunities
         /\ opportunities[hours[id].opportunity_id].organization_id = u
    ELSE TRUE

\* The status code verify_hours answers with.
verify_hours_response(u, id, decision) ==
    IF ~get_organization_user(u) THEN 403
    ELSE IF ~VolunteerHourVerify_valid(decision) THEN 422
    ELSE IF id \notin DOMAIN hours THEN 404
    ELSE IF ~verify_hours_authorized(u, id) THEN 403
    ELSE 200

\* (mutant) verify_hours that marks the record verified whatever the
\* decision is.
verify_hours_verified_Always(decision) == TRUE

\* hour.verified = (verify_data.status == "approved")
verify_hours_verified(decision) == decision = "approved"

\* The volunteer_hours table after verify_hours.
verify_hours_store(u, id, decision) ==
    IF verify_hours_response(u, id, decision) = 200
    THEN [hours EXCEPT ![id].verified = verify_hours_verified(decision)]
    ELSE hours

VerifyHours(u, id, decision) ==
    /\ hours' = verify_hours_store(u, id, decision)
    /\ last' = [op |-> "verify_hours", resp |-> verify_hours_response(u, id, decision),
                id |-> id, status |-> decision]
    /\ notified' = NoNotification
    /\ UNCHANGED <<users, organizations, nextOrgId, opportunities, nextOppId, matches>>
    /\ UNCHANGED <<nextHourId, pc, req, bulk>>

(* ------------------------------------- update_/delete_volunteer_hour *)
\* The attributes of a VolunteerHour: its columns and its relationships.
VolunteerHour_attributes ==
    {"id", "user_id", "opportunity_id", "hours", "date", "verified", "user", "opportunity"}

\* hasattr(hour_entry, "status"): VolunteerHour has no attribute "status".
VolunteerHour_has_status == "status" \in VolunteerHour_attributes

\* (mutant) the authorization check without the ownership test: every
\* volunteer passes.
volunteer_hour_authorized_AnyVolunteer(u, id) ==
    users[u].role \in {VOLUNTEER, ADMIN}

\* The authorization check shared by update_volunteer_hour and
\* delete_volunteer_hour: the volunteer who logged the record, or an admin.
volunteer_hour_authorized(u, id) ==
    IF users[u].role = VOLUNTEER THEN hours[id].user_id = u
    ELSE users[u].role = ADMIN

\* The status code update_volunteer_hour answers with. Reading
\* hour_entry.status raises AttributeError outside the handler's try, which
\* general_exception_handler turns into a 500.
update_volunteer_hour_response(u, id, body) ==
    IF id \notin DOMAIN hours THEN 404
    ELSE IF ~volunteer_hour_authorized(u, id) THEN 403
    ELSE IF ~VolunteerHour_has_status THEN 500
    ELSE IF hours[id].status = "verified" THEN 400
    ELSE 200

\* setattr(hour_entry, field, value) for the fields of the body that were
\* sent and that VolunteerHour has.
\* (mutant) the loop also maps a sent status onto the verified column.
update_volunteer_hour_setattr_StatusSetsVerified(row, body) ==
    [c \in DOMAIN row |->
        IF c \in body.sent \cap VolunteerHour_attributes THEN body[c]
        ELSE IF c = "verified" /\ "status" \in body.sent THEN body.status = "verified"
        ELSE row[c]]

update_volunteer_hour_setattr(row, body) ==
    [c \in DOMAIN row |->
        IF c \in body.sent \cap VolunteerHour_attributes THEN body[c] ELSE row[c]]

\* The volunteer_hours table after update_volunteer_hour.
update_volunteer_hour_store(u, id, body) ==
    IF update_volunteer_hour_response(u, id, body) = 200
    THEN [hours EXCEPT ![id] = update_volunteer_hour_setattr(@, body)]
    ELSE hours

UpdateVolunteerHour(u, id, body) ==
    /\ hours' = update_volunteer_hour_store(u, id, body)
    /\ last' = [op |-> "update_volunteer_hour",
                resp |-> update_volunteer_hour_response(u, id, body),
                id |-> id, sent |-> body.sent]
    /\ notified' = NoNotification
    /\ UNCHANGED <<users, organizations, nextOrgId, opportunities, nextOppId, matches>>
    /\ UNCHANGED <<nextHourId, pc, req, bulk>>

\* The status code delete_volunteer_hour answers with.
delete_volunteer_hour_response(u, id) ==
    IF id \notin DOMAIN hours THEN 404
    ELSE IF ~volunteer_hour_authorized(u, id) THEN 403
    ELSE IF ~VolunteerHour_has_status THEN 500
    ELSE IF hours[id].status = "verified" THEN 400
    ELSE 204

\* The volunteer_hours table after delete_volunteer_hour.
delete_volunteer_hour_store(u, id) ==
    IF delete_volunteer_hour_response(u, id) = 204
    THEN [h \in DOMAIN hours \ {id} |-> hours[h]]
    ELSE hours

DeleteVolunteerHour(u, id) ==
    /\ hours' = delete_volunteer_hour_store(u, id)
    /\ last' = Request("delete_volunteer_hour", delete_volunteer_hour_response(u, id))
    /\ notified' = NoNotification
    /\ UNCHANGED <<users, organizations, nextOrgId, opportunities, nextOppId, matches>>
    /\ UNCHANGED <<nextHourId, pc, req, bulk>>

(* ------------------------------------------------------------- SpecHours *)
\* The hour-tracking requests, handled one at a time, next to the requests
\* that create and delete opportunities.
NextHours ==
    \/ \E u \in DOMAIN users, oid \in OppIdInputs, body \in VolunteerHourCreate :
          LogHours(u, oid, body)
    \/ \E u \in DOMAIN users, id \in HourIdInputs, decision \in Decisions :
          VerifyHours(u, id, decision)
    \/ \E u \in DOMAIN users, id \in HourIdInputs, body \in VolunteerHourUpdate :
          UpdateVolunteerHour(u, id, body)
    \/ \E u \in DOMAIN users, id \in HourIdInputs : DeleteVolunteerHour(u, id)
    \/ \E u \in DOMAIN users : ListHours(u)
    \/ \E u \in DOMAIN users, g \in OrgIdInputs \cup {NULL} : CreateOpportunity(u, g)
    \/ \E u \in DOMAIN users, oid \in OppIdInputs : DeleteOpportunity(u, oid)

SpecHours == Init /\ [][NextHours]_vars

\* log_hours and update_volunteer_hour over bodies with any hours value.
NextHoursValues ==
    \/ \E u \in DOMAIN users, oid \in OppIdInputs, body \in VolunteerHourCreateAnyHours :
          LogHours(u, oid, body)
    \/ \E u \in DOMAIN users, id \in HourIdInputs, body \in VolunteerHourUpdate :
          UpdateVolunteerHour(u, id, body)
    \/ \E u \in DOMAIN users, g \in OrgIdInputs \cup {NULL} : CreateOpportunity(u, g)

SpecHoursValues == Init /\ [][NextHoursValues]_vars

(* ------------------------------------------- SpecRollback: the store raises *)
\* create_match and update_match with a store that may raise in db.commit():
\* raises says whether the commit of this request raises once it is reached.
\* "except Exception" then calls db.rollback() and answers 500.
create_match_raised(u, oid, raises) ==
    raises /\ create_match_response(u, oid) = 201

create_match_response_raising(u, oid, raises) ==
    IF create_match_raised(u, oid, raises) THEN 500 ELSE create_match_response(u, oid)

\* (mutant) the row added before the failed commit stays in the table.
create_match_store_raising_NoRollback(u, oid, raises) == create_match_store(u, oid)

\* The matches table after create_match: the new row of a commit that raised
\* is rolled back.
create_match_store_raising(u, oid, raises) ==
    IF create_match_raised(u, oid, raises) THEN matches ELSE create_match_store(u, oid)

CreateMatchOrRollback(u, oid, raises) ==
    /\ create_match_response_raising(u, oid, raises) = 201 => Len(matches) < MaxMatches
    /\ matches' = create_match_store_raising(u, oid, raises)
    /\ last' = [op |-> "create_match", resp |-> create_match_response_raising(u, oid, raises),
                raised |-> create_match_raised(u, oid, raises)]
    /\ notified' = NoNotification
    /\ UNCHANGED <<users, organizations, nextOrgId, opportunities, nextOppId>>
    /\ UNCHANGED <<hours, nextHourId, pc, req, bulk>>

update_match_raised(u, mid, body, raises) ==
    raises /\ update_match_commits(u, mid, body)

update_match_response_raising(u, mid, body, raises) ==
    IF update_match_raised(u, mid, body, raises) THEN 500
    ELSE update_match_response(u, mid, body)

\* The matches table after update_match: the status assigned before a commit
\* that raised is rolled back.
update_match_store_raising(u, mid, body, raises) ==
    IF update_match_raised(u, mid, body, raises) THEN matches
    ELSE update_match_store(u, mid, body)

UpdateMatchOrRollback(u, mid, body, raises) ==
    /\ matches' = update_match_store_raising(u, mid, body, raises)
    /\ last' = [op |-> "update_match",
                resp |-> update_match_response_raising(u, mid, body, raises),
                raised |-> update_match_raised(u, mid, body, raises)]
    /\ notified' = NoNotification
    /\ UNCHANGED <<users, organizations, nextOrgId, opportunities, nextOppId>>
    /\ UNCHANGED <<hours, nextHourId, pc, req, bulk>>

NextRollback ==
    \/ \E u \in DOMAIN users, oid \in OppIdInputs, raises \in BOOLEAN :
          CreateMatchOrRollback(u, oid, raises)
    \/ \E u \in DOMAIN users, mid \in MatchIdInputs, body \in StatusBodies, raises \in BOOLEAN :
          UpdateMatchOrRollback(u, mid, body, raises)
    \/ \E u \in DOMAIN users, g \in OrgIdInputs \cup {NULL} : CreateOpportunity(u, g)

SpecRollback == Init /\ [][NextRollback]_vars

(* ------------------------------------------------- SpecRoles: user roles *)
\* MAX_ADMINS of auth_routes.py.
MAX_ADMINS == 3

\* UserCreate.role is a UserRole; admin_key is right or wrong; the username
\* or email of the body is already registered or not.
register_user_response(role, existing_user, key_valid) ==
    IF existing_user THEN 400
    ELSE IF role = ADMIN /\ ~key_valid THEN 403
    ELSE IF role = ADMIN
            /\ Cardinality({a \in DOMAIN users : users[a].role = ADMIN}) >= MAX_ADMINS THEN 403
    ELSE 200

\* The id the users table gives the next row (no modelled request deletes a
\* user, so the ids in use are 1..n).
new_user_id == Cardinality(DOMAIN users) + 1

\* User(role=user_data.role), and for an organization the link
\* new_user.organization_id = new_organization.id.
new_user(role, g) ==
    [role |-> role, organization_id |-> IF role = ORGANIZATION THEN g ELSE NULL]

RegisterUser(role, existing_user, key_valid) ==
    /\ IF register_user_response(role, existing_user, key_valid) = 200
       THEN /\ Cardinality(DOMAIN users) < MaxUsers
            /\ users' = users @@ (new_user_id :> new_user(role, nextOrgId))
            /\ IF role = ORGANIZATION
               THEN /\ nextOrgId <= MaxOrgs
                    /\ organizations' = organizations @@
                          (nextOrgId :> [contact |-> new_user_id, status |-> "active"])
                    /\ nextOrgId' = nextOrgId + 1
               ELSE UNCHANGED <<organizations, nextOrgId>>
       ELSE UNCHANGED <<users, organizations, nextOrgId>>
    /\ last' = Request("register_user", register_user_response(role, existing_user, key_valid))
    /\ notified' = NoNotification
    /\ UNCHANGED <<opportunities, nextOppId, matches, hours, nextHourId, pc, req, bulk>>

\* status_data.get('status'): the values the handler names, and a body
\* without the key.
OrganizationStatusInputs == {"active", "inactive", "suspended", None}

update_organization_status_response(u, g) ==
    IF ~get_admin_user(u) THEN 403
    ELSE IF g \notin DOMAIN organizations THEN 404
    ELSE 200

\* db.query(User).filter(User.organization_id == org.id): the rows first()
\* picks from; NULL stands for no row.
organization_users(g) ==
    IF \E a \in DOMAIN users : users[a].organization_id = g
    THEN {a \in DOMAIN users : users[a].organization_id = g}
    ELSE {NULL}

\* (mutant) the suspended branch takes the organization role away.
update_organization_status_role_SuspendDemotes(row, new_status) ==
    IF new_status = "active" THEN ORGANIZATION
    ELSE IF new_status = "suspended" THEN VOLUNTEER
    ELSE row.role

\* The role of the associated user after the request: 'active' assigns
\* UserRole.ORGANIZATION, the 'inactive' and 'suspended' branches pass.
update_organization_status_role(row, new_status) ==
    IF new_status = "active" THEN ORGANIZATION ELSE row.role

UpdateOrganizationStatus(u, g, new_status) ==
    /\ IF update_organization_status_response(u, g) = 200
       THEN /\ \E a \in organization_users(g) :
                  users' = [b \in DOMAIN users |->
                              IF b = a
                              THEN [users[b] EXCEPT
                                      !.role = update_organization_status_role(users[b], new_status)]
                              ELSE users[b]]
            /\ organizations' = [organizations EXCEPT ![g].status = new_status]
       ELSE UNCHANGED <<users, organizations>>
    /\ last' = [op |-> "update_organization_status",
                resp |-> update_organization_status_response(u, g), id |-> g]
    /\ notified' = NoNotification
    /\ UNCHANGED <<nextOrgId, opportunities, nextOppId, matches, hours, nextHourId, pc, req, bulk>>

\* The columns of users that update_current_user_profile and update_user
\* assign: user_fields and password_hash.
update_user_columns == {"username", "email", "password_hash"}

\* A users row after the setattr loop: the columns of the row the loop names
\* take the value of the body, the others keep theirs.
update_user_row(row) ==
    [c \in DOMAIN row |-> IF c \in update_user_columns THEN "updated" ELSE row[c]]

\* PUT /me: every authenticated user.
UpdateCurrentUserProfile(u) ==
    /\ users' = [users EXCEPT ![u] = update_user_row(users[u])]
    /\ last' = Request("update_current_user_profile", 200)
    /\ notified' = NoNotification
    /\ UNCHANGED <<organizations, nextOrgId, opportunities, nextOppId>>
    /\ UNCHANGED <<matches, hours, nextHourId, pc, req, bulk>>

update_user_response(u, id) ==
    IF ~get_admin_user(u) THEN 403
    ELSE IF id \notin DOMAIN users THEN 404
    ELSE 200

\* PUT /users/{user_id}: admin only.
UpdateUser(u, id) ==
    /\ IF update_user_response(u, id) = 200
       THEN users' = [users EXCEPT ![id] = update_user_row(users[id])]
       ELSE UNCHANGED users
    /\ last' = Request("update_user", update_user_response(u, id))
    /\ notified' = NoNotification
    /\ UNCHANGED <<organizations, nextOrgId, opportunities, nextOppId>>
    /\ UNCHANGED <<matches, hours, nextHourId, pc, req, bulk>>

\* The column reset_password assigns.
reset_password_columns == {"password_hash"}

\* verify_password_reset_token gives no email (400), an email of no user
\* (404, id outside the table), or the email of user id.
reset_password_response(token_valid, id) ==
    IF ~token_valid THEN 400
    ELSE IF id \notin DOMAIN users THEN 404
    ELSE 200

ResetPassword(token_valid, id) ==
    /\ IF reset_password_response(token_valid, id) = 200
       THEN users' = [users EXCEPT ![id] =
                        [c \in DOMAIN users[id] |->
                           IF c \in reset_password_columns THEN "updated" ELSE users[id][c]]]
       ELSE UNCHANGED users
    /\ last' = Request("reset_password", reset_password_response(token_valid, id))
    /\ notified' = NoNotification
    /\ UNCHANGED <<organizations, nextOrgId, opportunities, nextOppId>>
    /\ UNCHANGED <<matches, hours, nextHourId, pc, req, bulk>>

UserIdInputs == 1..(Cardinality(DOMAIN users) + 1)

NextRoles ==
    \/ \E role \in UserRole, existing_user \in BOOLEAN, key_valid \in BOOLEAN :
          RegisterUser(role, existing_user, key_valid)
    \/ \E u \in DOMAIN users, g \in OrgIdInputs, new_status \in OrganizationStatusInputs :
          UpdateOrganizationStatus(u, g, new_status)
    \/ \E u \in DOMAIN users : UpdateCurrentUserProfile(u)
    \/ \E u \in DOMAIN users, id \in UserIdInputs : UpdateUser(u, id)
    \/ \E token_valid \in BOOLEAN, id \in UserIdInputs : ResetPassword(token_valid, id)

SpecRoles == Init /\ [][NextRoles]_vars

(* ------------------------------- SpecBulk: send_bulk_notifications *)
\* A notification dictionary: its "type" ("generic" stands for every type
\* the function does not name, and for a missing key), whether it holds the
\* keys its sender is called with (a missing key raises KeyError), and what
\* the sender returns (the senders catch every exception and return a bool).
Notifications ==
    [type : {"match_status", "new_opportunity", "generic"},
     keys : {"complete", "missing"},
     sent : BOOLEAN]

BoundedSeq(S, n) == UNION {[1..k -> S] : k \in 0..n}

NotificationLists == BoundedSeq(Notifications, MaxNotifications)

NotificationTypes ==
    {"match_status", "opportunity_reminder", "hour_verification", "new_opportunity"}

\* One turn of the loop on the counters c = [success_count, failure_count].
send_bulk_notifications_step(c, notification) ==
    IF notification.type \in NotificationTypes /\ notification.keys = "missing"
    THEN \* except Exception: failure_count += 1, twice
         [c EXCEPT !.failure_count = c.failure_count + 1 + 1]
    ELSE IF notification.type \in NotificationTypes /\ notification.sent
    THEN [c EXCEPT !.success_count = c.success_count + 1]
    ELSE [c EXCEPT !.failure_count = c.failure_count + 1]

RECURSIVE send_bulk_notifications_loop(_, _)
\* The counters after the loop over notifications, from the counters c.
send_bulk_notifications_loop(c, notifications) ==
    IF notifications = <<>> THEN c
    ELSE send_bulk_notifications_loop(send_bulk_notifications_step(c, Head(notifications)),
                                      Tail(notifications))

\* What the call evaluates to: the body ends after the loop without a return
\* statement.
send_bulk_notifications_returned(c) == None

SendBulkNotifications ==
    /\ ~bulk.called
    /\ LET c == send_bulk_notifications_loop([success_count |-> 0, failure_count |-> 0],
                                             bulk.notifications)
       IN bulk' = [notifications |-> bulk.notifications, called |-> TRUE,
                   returned |-> send_bulk_notifications_returned(c),
                   success_count |-> c.success_count,
                   failure_count |-> c.failure_count]
    /\ UNCHANGED <<db, notified, last, pc, req>>

InitBulk ==
    /\ InitTables(RegisteredUsers)
    /\ \E ns \in NotificationLists : bulk = [NoBulk EXCEPT !.notifications = ns]

NextBulk == SendBulkNotifications

SpecBulk == InitBulk /\ [][NextBulk]_vars

(* -------------------------------------------------------------- SpecConc *)
\* Two workers serve create_match requests at the same time, each in its own
\* session. A request reads the committed rows (role, opportunity and
\* duplicate checks), and its insert is committed in a later step; the
\* matches table has no unique constraint over (user_id, opportunity_id), so
\* the commit of one request never fails on the row of another.
inserts_pending == Cardinality({w \in Workers : pc[w] = "insert"})

\* create_match up to "if existing_match: raise".
CreateMatchCheck(w, u, oid) ==
    /\ pc[w] = "idle"
    /\ IF create_match_response(u, oid) = 201
       THEN /\ Len(matches) + inserts_pending < MaxMatches
            /\ pc' = [pc EXCEPT ![w] = "insert"]
            /\ req' = [req EXCEPT ![w] = [caller |-> u, opportunity_id |-> oid]]
            /\ UNCHANGED last
       ELSE /\ last' = Request("create_match", create_match_response(u, oid))
            /\ UNCHANGED <<pc, req>>
    /\ notified' = NoNotification
    /\ UNCHANGED <<db, bulk>>

\* create_match from "new_match = Match(...)" to "return new_match".
CreateMatchCommit(w) ==
    /\ pc[w] = "insert"
    /\ matches' = Append(matches, new_match(req[w].caller, req[w].opportunity_id))
    /\ last' = Request("create_match", 201)
    /\ pc' = [pc EXCEPT ![w] = "idle"]
    /\ req' = [req EXCEPT ![w] = [caller |-> NULL, opportunity_id |-> NULL]]
    /\ UNCHANGED <<users, organizations, nextOrgId, opportunities, nextOppId>>
    /\ UNCHANGED <<hours, nextHourId, bulk>>
    /\ notified' = NoNotification

NextConc ==
    \/ \E w \in Workers, u \in DOMAIN users, oid \in OppIdInputs : CreateMatchCheck(w, u, oid)
    \/ \E w \in Workers : CreateMatchCommit(w)
    \/ \E u \in DOMAIN users, g \in OrgIdInputs \cup {NULL} : CreateOpportunity(u, g)

SpecConc == Init /\ [][NextConc]_vars

(* ================================================================ claims *)
Volunteers == {u \in DOMAIN users : users[u].role = VOLUNTEER}
\* Every opportunity id issued so far, deleted or not.
OppIdsIssued == 1..(nextOppId - 1)
\* The matches volunteer v holds for opportunity o.
MatchesOf(v, o) == {m \in MatchIds : matches[m].user_id = v /\ matches[m].opportunity_id = o}

\* C1: with requests handled one at a time, no volunteer ever holds two
\* matches for the same opportunity, and a create_match by a volunteer who
\* already holds a match for the opportunity is answered 400 and leaves the
\* matches table as it was.
C1_OneMatchPerPair ==
    /\ \A m1, m2 \in MatchIds :
          ( /\ matches[m1].user_id = matches[m2].user_id
            /\ matches[m1].opportunity_id = matches[m2].opportunity_id
            /\ matches[m1].opportunity_id \in OppIdsIssued ) => m1 = m2
    /\ \A v \in Volunteers, o \in OppIdsIssued :
          MatchesOf(v, o) # {} =>
             /\ create_match_response(v, o) = 400
             /\ create_match_store(v, o) = matches

\* C1 witness: a volunteer holding a match was just refused a second one.
C1_Witness ==
    /\ last = Request("create_match", 400)
    /\ \E v \in Volunteers, o \in OppIdsIssued : Cardinality(MatchesOf(v, o)) = 1

\* C2: under concurrent create_match requests, at most one match exists for
\* each (volunteer, opportunity) pair.
C2_OneMatchPerPairConcurrent ==
    \A v \in Volunteers, o \in OppIdsIssued : Cardinality(MatchesOf(v, o)) <= 1

\* The organization that owns the opportunity of match m (NULL when the
\* opportunity is gone).
OwnerOf(m) ==
    IF matches[m].opportunity_id \in DOMAIN opportunities
    THEN opportunities[matches[m].opportunity_id].organization_id
    ELSE NULL

\* The callers the rule allows to change the status of match m.
MayUpdate(u, m) ==
    \/ users[u].role = ADMIN
    \/ /\ users[u].role = ORGANIZATION
       /\ users[u].organization_id # NULL
       /\ users[u].organization_id = OwnerOf(m)

\* C3: a step that changes the status of a match is an update_match request,
\* and every caller whose request makes that step is an admin or a user of
\* the organization owning the match's opportunity.
C3_OnlyOwnerOrAdminChangesStatus ==
    [][\A m \in MatchIds :
          (m <= Len(matches') /\ matches'[m].status # matches[m].status) =>
             /\ last'.op = "update_match"
             /\ \A u \in DOMAIN users, body \in StatusBodies :
                   matches' = update_match_store(u, m, body) => MayUpdate(u, m)]_vars

\* C3 witness: an update was carried out on a match whose opportunity
\* belongs to an organization, and the match left pending.
C3_Witness ==
    /\ last = Request("update_match", 200)
    /\ \E m \in MatchIds : matches[m].status = ACCEPTED /\ OwnerOf(m) # NULL

\* C4: every update_match request of a volunteer that names an existing
\* match and carries a valid status is answered 403, also when the
\* opportunity of the match has been deleted.
C4_VolunteerAlwaysForbidden ==
    \A v \in Volunteers, m \in MatchIds, body \in MatchStatus :
        update_match_response(v, m, body) = 403

\* C5: once the status of a match is accepted or rejected, no step sets it
\* back to pending.
C5_NeverBackToPending ==
    [][\A m \in MatchIds :
          matches[m].status \in {ACCEPTED, REJECTED} => matches'[m].status # PENDING]_vars

\* C6: a match that is accepted never becomes rejected and a match that is
\* rejected never becomes accepted.
C6_DecisionIsFinal ==
    [][\A m \in MatchIds :
          /\ ~(matches[m].status = ACCEPTED /\ matches'[m].status = REJECTED)
          /\ ~(matches[m].status = REJECTED /\ matches'[m].status = ACCEPTED)]_vars

\* C7: every stored match has a status of MatchStatus.
C7_StatusInEnum ==
    \A m \in MatchIds : matches[m].status \in MatchStatus

\* Forbidden, NotFound and Conflict as the match handlers answer them.
ClientErrors == {400, 403, 404}

\* C8: a create_match or update_match request answered with 403, 404 or 400
\* leaves every table as it was.
C8_ClientErrorWritesNothing ==
    [][(last'.op \in {"create_match", "update_match"} /\ last'.resp \in ClientErrors)
          => UNCHANGED db]_vars

\* C8 witness: an update was refused with 403 while a match stood accepted
\* under an organization, and organization users other than the owner exist.
C8_Witness ==
    /\ last = Request("update_match", 403)
    /\ \E m \in MatchIds :
          /\ matches[m].status = ACCEPTED
          /\ \E u \in DOMAIN users :
                /\ users[u].role = ORGANIZATION
                /\ OwnerOf(m) # NULL
                /\ users[u].organization_id # OwnerOf(m)

\* What the visibility rule shows caller u, for the three roles it names.
Visible(u) ==
    CASE users[u].role = VOLUNTEER -> {m \in MatchIds : matches[m].user_id = u}
      [] users[u].role = ORGANIZATION ->
            {m \in MatchIds : users[u].organization_id # NULL
                              /\ OwnerOf(m) = users[u].organization_id}
      [] users[u].role = ADMIN -> MatchIds

\* C9: list_matches returns a volunteer its own matches, an organization
\* user the matches of its organization's opportunities (none when it has no
\* organization), and an admin every match.
C9_ListMatchesVisibility ==
    \A u \in DOMAIN users : users[u].role \in UserRole => list_matches(u) = Visible(u)

\* C9 witness: list_matches was served in a state where an organization user
\* and a volunteer each see some of the matches and not all of them.
C9_Witness ==
    /\ last = Request("list_matches", 200)
    /\ \E u \in DOMAIN users :
          users[u].role = ORGANIZATION /\ list_matches(u) \notin {{}, MatchIds}
    /\ \E v \in Volunteers : list_matches(v) \notin {{}, MatchIds}

C11_NotFoundAndForbidden ==
    \A u \in DOMAIN users, oid \in OppIdInputs :
        /\ oid \notin DOMAIN opportunities => create_match_response(u, oid) = 404
        /\ users[u].role # VOLUNTEER => create_match_response(u, oid) = 403
        /\ (oid \notin DOMAIN opportunities \/ users[u].role # VOLUNTEER)
              => create_match_store(u, oid) = matches

\* C11 (amended): create_match answers 403 whenever the caller is not a
\* volunteer, whether or not the opportunity exists, and 404 whenever the
\* caller is a volunteer and the opportunity does not exist; it creates no
\* Match in either case.
C11_ForbiddenThenNotFound ==
    \A u \in DOMAIN users, oid \in OppIdInputs :
        /\ users[u].role # VOLUNTEER => create_match_response(u, oid) = 403
        /\ (users[u].role = VOLUNTEER /\ oid \notin DOMAIN opportunities)
              => create_match_response(u, oid) = 404
        /\ (oid \notin DOMAIN opportunities \/ users[u].role # VOLUNTEER)
              => create_match_store(u, oid) = matches

\* C11 witness: a create_match was answered 404 while matches exist, one of
\* them for an opportunity that has since been deleted.
C11_Witness ==
    /\ last = Request("create_match", 404)
    /\ \E m \in MatchIds : matches[m].opportunity_id = NULL

\* C12: every Match that comes to exist is created by create_match with
\* status pending, with the id of a volunteer-role user as user_id and with
\* the id of an Opportunity that exists at that moment; and no step removes a
\* Match or turns it into the Match of another volunteer.
C12_CreatedPendingNeverDeleted ==
    [][/\ Len(matches') >= Len(matches)
       /\ \A m \in MatchIds : matches'[m].user_id = matches[m].user_id
       /\ \A m \in 1..Len(matches') :
             m > Len(matches) =>
                /\ last' = Request("create_match", 201)
                /\ matches'[m].status = PENDING
                /\ matches'[m].user_id \in Volunteers
                /\ matches'[m].opportunity_id \in DOMAIN opportunities]_vars

\* C12 witness: a second Match has just been created while the first one
\* outlived the deletion of its Opportunity.
C12_Witness ==
    /\ last = Request("create_match", 201)
    /\ Len(matches) = MaxMatches
    /\ matches[1].opportunity_id = NULL

\* C13: every create_match answered 201 and every update_match answered 200
\* hands a notification to the volunteer of the Match to send_email (for an
\* update, about the new status).
C13_SuccessNotifiesVolunteer ==
    [][/\ last' = Request("create_match", 201)
            => notified' = [to |-> matches'[Len(matches')].user_id, about |-> "applied"]
       /\ last' = Request("update_match", 200)
            => \E m \in MatchIds :
                  notified' = [to |-> matches'[m].user_id, about |-> matches'[m].status]]_vars

\* C14: whenever MatchingService.update_match_status has committed the new
\* status, the status stays stored and the call returns the Match.
C14_NotificationNeverFailsMutation ==
    \A mid \in MatchIds, st \in MatchStatus :
        MatchingService_update_match_status_commits(mid) =>
            /\ MatchingService_update_match_status_store(mid, st)[mid].status = st
            /\ MatchingService_update_match_status_result(mid) = "Match"

\* C15: a Match whose Opportunity has been deleted cannot be updated: for an
\* admin and for every organization user, update_match with a body that
\* MatchUpdate accepts answers 404 and leaves the matches table as it was.
C15_DeletedOpportunityNotFound ==
    \A m \in MatchIds, u \in DOMAIN users, body \in StatusBodies :
        (/\ matches[m].opportunity_id \notin DOMAIN opportunities
         /\ users[u].role \in {ADMIN, ORGANIZATION}
         /\ MatchUpdate_valid(body))
        => /\ update_match_response(u, m, body) = 404
           /\ update_match_store(u, m, body) = matches

\* C15 witness: an update was answered 404 while a Match that had been
\* accepted stands without its Opportunity.
C15_Witness ==
    /\ last = Request("update_match", 404)
    /\ \E m \in MatchIds :
          matches[m].opportunity_id = NULL /\ matches[m].status = ACCEPTED

\* The organization that owns hour record id through its Opportunity (NULL
\* when the Opportunity is gone).
OwnerOfHour(id) ==
    IF hours[id].opportunity_id \in DOMAIN opportunities
    THEN opportunities[hours[id].opportunity_id].organization_id
    ELSE NULL

\* C16: a verified VolunteerHour record is frozen: every update and every
\* delete request on it, by a caller who passes the authorization check
\* (the claim says by any caller), answers Conflict (400) and leaves the
\* volunteer_hours table as it was.
C16_VerifiedIsFrozen ==
    \A id \in DOMAIN hours, u \in DOMAIN users, body \in VolunteerHourUpdate :
        (hours[id].verified /\ volunteer_hour_authorized(u, id)) =>
            /\ update_volunteer_hour_response(u, id, body) = 400
            /\ update_volunteer_hour_store(u, id, body) = hours
            /\ delete_volunteer_hour_response(u, id) = 400
            /\ delete_volunteer_hour_store(u, id) = hours

\* C17: while a record is not verified, an update by the volunteer who owns
\* it answers 200 and stores the hours and date that were sent, and a delete
\* by that volunteer answers 204 and removes the record.
C17_OwnerEditsUnverified ==
    \A id \in DOMAIN hours, body \in VolunteerHourUpdate :
        LET u == hours[id].user_id IN
        (~hours[id].verified /\ u \in Volunteers) =>
            /\ update_volunteer_hour_response(u, id, body) = 200
            /\ "hours" \in body.sent
                  => update_volunteer_hour_store(u, id, body)[id].hours = body.hours
            /\ "date" \in body.sent
                  => update_volunteer_hour_store(u, id, body)[id].date = body.date
            /\ delete_volunteer_hour_response(u, id) = 204
            /\ id \notin DOMAIN delete_volunteer_hour_store(u, id)

\* Caller u is an organization user of the organization that owns record id.
OwnsHour(u, id) ==
    /\ users[u].role = ORGANIZATION
    /\ users[u].organization_id # NULL
    /\ OwnerOfHour(id) = users[u].organization_id

\* C18: verify_hours with a decision of approved or rejected is allowed for
\* an admin and for an organization user whose organization owns the
\* record's Opportunity, and refused (403, record unchanged) for every other
\* organization user and for every volunteer.
C18_OnlyOwnerOrAdminVerifies ==
    \A id \in DOMAIN hours, u \in DOMAIN users, decision \in {"approved", "rejected"} :
        /\ (users[u].role = ADMIN \/ OwnsHour(u, id))
              => verify_hours_response(u, id, decision) = 200
        /\ ((users[u].role = ORGANIZATION /\ ~OwnsHour(u, id)) \/ users[u].role = VOLUNTEER)
              => /\ verify_hours_response(u, id, decision) = 403
                 /\ verify_hours_store(u, id, decision) = hours

\* C19: a verify_hours answered 200 leaves the record with
\* verified = (decision = approved); no other field of the record, no other
\* record and no other table changes.
C19_VerifySetsFlagOnly ==
    [][(last'.op = "verify_hours" /\ last'.resp = 200) =>
          /\ last'.id \in DOMAIN hours
          /\ hours' = [hours EXCEPT ![last'.id].verified = (last'.status = "approved")]
          /\ UNCHANGED <<users, organizations, nextOrgId, opportunities, nextOppId,
                         matches, nextHourId>>]_vars

\* C19 witness: a verify_hours with the decision rejected was answered 200;
\* its record is not verified while another record stays verified.
C19_Witness ==
    /\ last.op = "verify_hours"
    /\ last.resp = 200
    /\ last.status = "rejected"
    /\ ~hours[last.id].verified
    /\ \E other \in DOMAIN hours \ {last.id} : hours[other].verified

\* C20: a verify_hours request whose decision is neither approved nor
\* rejected, from a caller who may verify, answers with a validation error
\* (422) and leaves the volunteer_hours table as it was.
C20_OtherDecisionsRejected ==
    \A id \in DOMAIN hours, u \in DOMAIN users, decision \in Decisions \ {"approved", "rejected"} :
        (get_organization_user(u) /\ verify_hours_authorized(u, id)) =>
            /\ verify_hours_response(u, id, decision) = 422
            /\ verify_hours_store(u, id, decision) = hours

\* C21: verification is terminal: once the verified flag of a record is
\* true, no step makes it false again.
C21_VerifiedIsTerminal ==
    [][\A id \in DOMAIN hours :
          (hours[id].verified /\ id \in DOMAIN hours') => hours'[id].verified]_vars

\* What the visibility rule of the hour records shows caller u.
VisibleHours(u) ==
    IF users[u].role = VOLUNTEER
    THEN {id \in DOMAIN hours : hours[id].user_id = u}
    ELSE IF users[u].role = ORGANIZATION
    THEN {id \in DOMAIN hours :
            OwnerOfHour(id) # NULL /\ OwnerOfHour(id) = users[u].organization_id}
    ELSE IF users[u].role = ADMIN
    THEN DOMAIN hours
    ELSE {}

\* C22: list_hours returns a volunteer its own records, an organization user
\* the records of its organization's opportunities, an admin every record,
\* and any other role nothing.
C22_ListHoursVisibility ==
    \A u \in DOMAIN users : list_hours(u) = VisibleHours(u)

\* C23: an update or delete request on an existing record by an
\* organization user, or by a volunteer who does not own the record, answers
\* 403 and leaves the volunteer_hours table as it was.
C23_OnlyOwnerOrAdminEdits ==
    \A id \in DOMAIN hours, u \in DOMAIN users, body \in VolunteerHourUpdate :
        (\/ users[u].role = ORGANIZATION
         \/ (users[u].role = VOLUNTEER /\ hours[id].user_id # u))
        => /\ update_volunteer_hour_response(u, id, body) = 403
           /\ update_volunteer_hour_store(u, id, body) = hours
           /\ delete_volunteer_hour_response(u, id) = 403
           /\ delete_volunteer_hour_store(u, id) = hours

\* C23 witness: an update was refused with 403 while records of both
\* volunteers exist.
C23_Witness ==
    /\ last.op = "update_volunteer_hour"
    /\ last.resp = 403
    /\ \A v \in Volunteers : \E id \in DOMAIN hours : hours[id].user_id = v

\* C24: log_hours adds a record exactly when the caller is a volunteer and
\* the Opportunity exists, whatever records the volunteer already has; the
\* new record is an additional one under a fresh id, with verified = false,
\* the caller's id as user_id and the Opportunity named; in every other case
\* the volunteer_hours table stays as it was.
C24_LogHoursNoDuplicateGuard ==
    \A u \in DOMAIN users, oid \in OppIdInputs, body \in VolunteerHourCreate :
        IF users[u].role = VOLUNTEER /\ oid \in DOMAIN opportunities
        THEN /\ log_hours_response(u, oid) = 200
             /\ \E id \in DOMAIN log_hours_store(u, oid, body) \ DOMAIN hours :
                   /\ DOMAIN log_hours_store(u, oid, body) = DOMAIN hours \cup {id}
                   /\ ~log_hours_store(u, oid, body)[id].verified
                   /\ log_hours_store(u, oid, body)[id].user_id = u
                   /\ log_hours_store(u, oid, body)[id].opportunity_id = oid
             /\ \A id \in DOMAIN hours : log_hours_store(u, oid, body)[id] = hours[id]
        ELSE /\ log_hours_response(u, oid) # 200
             /\ log_hours_store(u, oid, body) = hours

\* C24 witness: a volunteer has just logged hours a second time for the same
\* Opportunity and has two records for it.
C24_Witness ==
    /\ last = Request("log_hours", 200)
    /\ \E a \in DOMAIN hours, b \in DOMAIN hours :
          /\ a # b
          /\ hours[a].user_id = hours[b].user_id
          /\ hours[a].opportunity_id = hours[b].opportunity_id
          /\ hours[a].opportunity_id \in DOMAIN opportunities

\* C25: every stored VolunteerHour record has hours greater than zero.
C25_HoursPositive ==
    \A id \in DOMAIN hours : hours[id].hours > 0

\* C26: when the store raises in the commit of create_match or update_match,
\* the request answers 500 and the matches table is the one from before the
\* request: no new Match and no changed status.
C26_RaisingCommitRollsBack ==
    [][(last'.op \in {"create_match", "update_match"} /\ last'.raised)
          => (last'.resp = 500 /\ matches' = matches)]_vars

\* C26 witness: the commit of an update raised on a table that holds an
\* accepted and a pending Match.
C26_Witness ==
    /\ last.op = "update_match"
    /\ last.raised
    /\ \E a \in MatchIds, b \in MatchIds :
          matches[a].status = ACCEPTED /\ matches[b].status = PENDING

\* C27: a User's role never changes after registration: no request (register,
\* profile update, admin user update, organization status update, password
\* reset) changes the role of a user the table already holds.
C27_RoleNeverChanges ==
    [][\A u \in DOMAIN users : u \in DOMAIN users' /\ users'[u].role = users[u].role]_vars

\* C27 witness: an admin set the organization that a later registration
\* created, and linked to its new user, to 'active'.
C27_Witness ==
    /\ last.op = "update_organization_status"
    /\ last.resp = 200
    /\ organizations[last.id].status = "active"
    /\ \E a \in DOMAIN users :
          a \notin DOMAIN RegisteredUsers /\ users[a].organization_id = last.id

\* C28: send_bulk_notifications returns a dictionary with a success count and
\* a failure count, and the two counts sum to the number of notifications of
\* the list, each notification counted exactly once.
C28_BulkCountsEveryNotificationOnce ==
    bulk.called =>
        /\ bulk.returned # None
        /\ bulk.success_count + bulk.failure_count = Len(bulk.notifications)

\* C29: MatchingService.create_match is idempotent per (volunteer,
\* opportunity): for a pair that already has a Match the call returns that
\* Match, adds no record, leaves every Match as it is and sends no
\* notification.
C29_CreateMatchIdempotent ==
    \A v \in VolunteerIdInputs, oid \in OppIdInputs :
        existing_match(v, oid) =>
            /\ MatchingService_create_match_result(v, oid) = "Match"
            /\ MatchingService_create_match_returned(v, oid) \in MatchIds
            /\ matches[MatchingService_create_match_returned(v, oid)].user_id = v
            /\ matches[MatchingService_create_match_returned(v, oid)].opportunity_id = oid
            /\ MatchingService_create_match_store(v, oid) = matches
            /\ MatchingService_create_match_notification(v, oid) = NoNotification

\* C29 witness: the call returned the existing Match of its pair, which had
\* been accepted before, and nothing was handed to send_email.
C29_Witness ==
    /\ last.op = "MatchingService.create_match"
    /\ last.resp = "Match"
    /\ last.id \in MatchIds
    /\ matches[last.id].status = ACCEPTED
    /\ notified = NoNotification

\* C30: update_volunteer_hour never changes a record's verified flag, user_id
\* or opportunity_id, whatever fields the body carries (a status field
\* included): the table keeps its records, and in each of them only hours and
\* date can differ after the request; the same holds of the setattr loop on
\* every record.
C30_UpdateWritesHoursAndDateOnly ==
    \A id \in DOMAIN hours, u \in DOMAIN users, body \in VolunteerHourUpdate :
        LET after == update_volunteer_hour_store(u, id, body)
            row == update_volunteer_hour_setattr(hours[id], body)
        IN /\ DOMAIN after = DOMAIN hours
           /\ \A h \in DOMAIN hours :
                 /\ after[h].verified = hours[h].verified
                 /\ after[h].user_id = hours[h].user_id
                 /\ after[h].opportunity_id = hours[h].opportunity_id
           /\ row.verified = hours[id].verified
           /\ row.user_id = hours[id].user_id
           /\ row.opportunity_id = hours[id].opportunity_id

\* C30 witness: the owner or an admin sent an update with a status field for
\* an unverified record, and the record is still unverified.
C30_Witness ==
    /\ last.op = "update_volunteer_hour"
    /\ last.resp \notin {403, 404}
    /\ "status" \in last.sent
    /\ last.id \in DOMAIN hours
    /\ ~hours[last.id].verified

====
